---- MODULE Spec2Model ----
(***************************************************************************)
(* SNESoIP firmware: the SNES I/O driver (Firmware/src/SNES.c) and the     *)
(* WiFi driver (Firmware/src/WiFi.c).                                      *)
(*                                                                         *)
(* The model follows the driver's global data (_stDriver), the read        *)
(* thread _SNESReadInputThread statement by statement where it touches     *)
(* shared data and cycle by cycle inside the sampling loop, and the calls  *)
(* other tasks make into the driver (InitSNES, DeInitSNES,                 *)
(* GetSNESInputData).  The input data line and the SPI slave peripheral    *)
(* are the environment.  Spec is the release build with InitSNES called    *)
(* once; DebugSpec adds the debug thread and repeated InitSNES calls,      *)
(* StartSpec an RMT channel that cannot be set up, WiFiSpec the WiFi       *)
(* driver beside the read thread.                                          *)
(***************************************************************************)
EXTENDS Integers, Sequences, FiniteSets, TLC

(***************************************************************************)
(* Bounds of the model.                                                    *)
(***************************************************************************)
\* Number of capture cycles the read loop may start.
MaxCaptures == 7
\* Number of line waveforms (latched button states) the controller may show.
NumPatterns == 2
\* Cycles 0..GlitchWindow-1 are those in which the line may change between
\* the two reads of one cycle.
GlitchWindow == 1

(***************************************************************************)
(* Program constants.                                                      *)
(***************************************************************************)
\* for (u8Bit = 0; u8Bit < 16; u8Bit++)
NumCycles == 16
\* if (u8Bit < 12)
NumSampled == 12
\* uint16_t u16Temp[3]
NumSlots == 3
\* if (u8Attempt > 2)
AttemptLimit == 2
\* _stDriver.u16InputData = 0xffff
InitInputData == 65535
\* uint16_t u16Temp[3] = { 0xffff, 0xffff, 0xffff }
InitTemp == 65535
\* stPort0.queue_size = 1
QueueSize == 1
\* ets_delay_us(3)
SettleUs == 3
\* ets_delay_us(6), twice in each cycle
HalfDelayUs == 6
\* stLatchItem[1]: rmt_write_items(..., 1, 0)
NumLatchItems == 1
\* stClockItem[17]: rmt_write_items(..., 17, 0)
NumClockItems == 17
\* stLatchItem[0].duration0 = 12
LatchTicks == 12
\* stClockItem[..].duration0 = 6, stClockItem[1..16].duration1 = 6
HalfTicks == 6
\* stClockItem[0].duration1 = 5
LeadTailTicks == 5

Pow2(n) == 2 ^ n
U8(x) == x % Pow2(8)
U16(x) == x % Pow2(16)

\* A uint32_t is kept as its two 16-bit halves << high, low >>, the value
\* being high * 2^16 + low.
Half == Pow2(16)
U32Of(x) == << (x \div Half) % Half, x % Half >>
U32Hi(w) == w[1]
U32Lo(w) == w[2]

\* w << 1 on a uint32_t: the top bit falls off.
U32Shl1(w) == << (U32Hi(w) * 2 + U32Lo(w) \div Pow2(15)) % Half,
                 (U32Lo(w) * 2) % Half >>

\* w >> 1 on a uint32_t.
U32Shr1(w) == << U32Hi(w) \div 2,
                 (U32Hi(w) % 2) * Pow2(15) + U32Lo(w) \div 2 >>

\* w & ~(1 << 0) on a uint32_t: ~(1 << 0) converts to 0xfffffffe.
U32ClearBit0(w) == << U32Hi(w), U32Lo(w) - (U32Lo(w) % 2) >>

\* _stDriver.u32Port0Tx = 0xffffffff
InitPortTx == << Half - 1, Half - 1 >>

\* memset(&_stDriver, 0, ...) leaves a uint32_t at zero.
ZeroPortTx == << 0, 0 >>

\* Bit i of the unsigned value v.
Bit(v, i) == (v \div Pow2(i)) % 2

\* v | (1 << i), stored back into a uint16_t.
SetBit(v, i) == IF Bit(v, i) = 1 THEN v ELSE U16(v + Pow2(i))

\* v & ~(1 << i), stored back into a uint16_t.
ClearBit(v, i) == IF Bit(v, i) = 1 THEN v - Pow2(i) ELSE v

(***************************************************************************)
(* The input data line.  During one capture the controller shifts out the  *)
(* button state it latched; the model draws that state from a small set of *)
(* 16-cycle waveforms (bit i = line level during cycle i).                 *)
(***************************************************************************)
Waveforms == << 65535, 4094, 3839, 61440, 0 >>
PatternSet == { Waveforms[k] : k \in 1..NumPatterns }

\* gpio_get_level(SNES_INPUT_DATA_PIN) at the first read of cycle `bit`.
LineLevel(wave, bit) == Bit(wave, bit)

\* The levels the second read of cycle `bit` may return after a first read
\* of `l1`: the line may have changed in between.
SecondLevels(l1, bit) == IF bit < GlitchWindow THEN {0, 1} ELSE {l1}

VARIABLES
    sys,            \* "boot", "up" (InitSNES returned) or "aborted"
    bIsRunning,     \* _stDriver.bIsRunning
    u16InputData,   \* _stDriver.u16InputData  (CommittedState)
    u32Port0Tx,     \* _stDriver.u32Port0Tx
    u32Port1Tx,     \* _stDriver.u32Port1Tx
    pc,             \* position of _SNESReadInputThread
    u16Temp,        \* the thread's u16Temp[3]
    u8Attempt,      \* the thread's u8Attempt
    u8Bit,          \* the thread's u8Bit
    latched,        \* waveform the controller shifts out in this capture
    vspiQueued,     \* transactions pending in the VSPI slave queue
    ret,            \* value returned by the latest GetSNESInputData call
    captures,       \* history: completed captures
    evals,          \* history: consensus evaluations made
    it,             \* history: what the current loop iteration has done
    hist,           \* history: flags about the run so far
    sig,            \* _stDriver.stLatchItem and _stDriver.stClockItem
    dbg,            \* _SNESDebugThread: position and locals (DEBUG builds)
    wifi            \* WiFi.c: driver data, event group, threads

driverVars == << bIsRunning, u16InputData, u32Port0Tx, u32Port1Tx >>
threadVars == << pc, u16Temp, u8Attempt, u8Bit >>
envVars    == << latched, vspiQueued >>
histVars   == << captures, evals, it, hist >>
auxVars    == << sig, dbg, wifi >>
vars == << sys, driverVars, threadVars, envVars, ret, histVars, auxVars >>

\* The record `it` at the start of a loop iteration.
\*   latch, clock, settle, cycles, consensus, delay: the steps it has made;
\*   glitched: the cycles whose second read differed from the first;
\*   stale: the content of the frame slot before the capture;
\*   evaluated, wrote: the group was evaluated, CommittedState was written;
\*   queued, dropped: outcome of the queue attempt; emitFailed: an
\*   rmt_write_items call failed; in0, tx0: CommittedState and the TX buffer
\*   when the iteration began; latchOut, clockOut: the number of items
\*   SendLatch and SendClock handed to rmt_write_items; delays, elapsed: the
\*   number of ets_delay_us calls the capture has made and the microseconds
\*   they asked for; firstAt, sampleAt: the microseconds asked for before the
\*   capture's first and latest read of the line.
FreshIter ==
    [ latch |-> FALSE, clock |-> FALSE, settle |-> FALSE, cycles |-> 0,
      glitched |-> {}, stale |-> 0, consensus |-> FALSE,
      evaluated |-> FALSE, wrote |-> FALSE,
      queued |-> FALSE, dropped |-> FALSE,
      emitFailed |-> FALSE, delay |-> FALSE,
      in0 |-> 0, tx0 |-> ZeroPortTx,
      latchOut |-> 0, clockOut |-> 0,
      delays |-> 0, elapsed |-> 0,
      firstAt |-> 0, sampleAt |-> 0 ]

\* The record `hist` before anything has happened.
\*   committed: a consensus commit has been made; stopMidIter: DeInitSNES was
\*   called while a loop iteration was in progress; stopInCapture: it was
\*   called before that iteration's capture had finished; lateIter: an
\*   iteration began after DeInitSNES; lateWrites: writes to CommittedState
\*   made after DeInitSNES; queueCalls: calls of spi_slave_queue_trans made;
\*   claimed: the peripherals held (SPI hosts initialised, RMT channels with a
\*   driver installed); threads: read threads created and not yet deleted.
FreshHist ==
    [ committed |-> FALSE, stopMidIter |-> FALSE, stopInCapture |-> FALSE,
      lateIter |-> FALSE, lateWrites |-> 0, queueCalls |-> 0,
      claimed |-> {}, threads |-> 0 ]

\* One rmt_item32_t, a 32-bit word kept as its two 16-bit halves: duration0
\* in bits 0..14, level0 in bit 15, duration1 in bits 16..30, level1 in
\* bit 31.
Item(d0, l0, d1, l1) == << d0 + l0 * Pow2(15), d1 + l1 * Pow2(15) >>
Duration0(item) == item[1] % Pow2(15)
Level0(item)    == item[1] \div Pow2(15)
Duration1(item) == item[2] % Pow2(15)
Level1(item)    == item[2] \div Pow2(15)

\* stLatchItem[1] and stClockItem[17] in zero-initialised storage.
ZeroSig ==
    [ latch |-> [ i \in 0..(NumLatchItems - 1) |-> Item(0, 0, 0, 0) ],
      clock |-> [ i \in 0..(NumClockItems - 1) |-> Item(0, 0, 0, 0) ] ]

\* _SNESDebugThread before it is created: its locals u16Temp and u16Prev.
FreshDbg == [ pc |-> "none", u16Temp |-> InitTemp, u16Prev |-> InitTemp ]

\* WiFi.c before InitWiFi: the zero-initialised driver, no event bits, no
\* SmartConfig thread, WaitForIP not called.
\*   bits: the bits set in hEventGroup; sc: position of _SmartConfigThread;
\*   wait: position of the WaitForIP caller; doneRaised: _SCCallback has set
\*   eESPTOUCH_DONE_BIT.
FreshWifi ==
    [ init |-> FALSE, bHasIP |-> FALSE, bits |-> {}, sc |-> "none",
      wait |-> "idle", doneRaised |-> FALSE ]

(***************************************************************************)
(* Static storage before InitSNES: _stDriver is zero-initialised, no       *)
(* thread exists.                                                          *)
(***************************************************************************)
Init ==
    /\ sys = "boot"
    /\ bIsRunning = FALSE
    /\ u16InputData = 0
    /\ u32Port0Tx = ZeroPortTx
    /\ u32Port1Tx = ZeroPortTx
    /\ pc = "none"
    /\ u16Temp = [ i \in 0..(NumSlots - 1) |-> InitTemp ]
    /\ u8Attempt = 0
    /\ u8Bit = 0
    /\ latched = Waveforms[1]
    /\ vspiQueued = 0
    /\ ret = -1
    /\ captures = 0
    /\ evals = 0
    /\ it = FreshIter
    /\ hist = FreshHist
    /\ sig = ZeroSig
    /\ dbg = FreshDbg
    /\ wifi = FreshWifi


(***************************************************************************)
(* Pure parts of the read thread.                                          *)
(***************************************************************************)

\* LoopCond never seeing the flag cleared (the flag read once, before the
\* loop).
LoopCondAlways(running) == TRUE

\* while (_stDriver.bIsRunning)
LoopCond(running) == running

\* SampleBit sampling all 16 cycles into the frame.
SampleBitAll16(frame, bit, l1, l2) ==
    IF l1 = 1
    THEN IF l2 = 1 THEN SetBit(frame, bit) ELSE frame
    ELSE ClearBit(frame, bit)

\* One sample cycle's effect on the frame being built: cycles 0..11 read the
\* line, a low first read clears the bit, a high first read followed by a
\* high second read sets it, and a high first read followed by a low second
\* read leaves the bit as it was; cycles 12..15 do not touch the frame.
SampleBit(frame, bit, l1, l2) ==
    IF bit < NumSampled
    THEN IF l1 = 1
         THEN IF l2 = 1 THEN SetBit(frame, bit) ELSE frame
         ELSE ClearBit(frame, bit)
    ELSE frame

\* EvalDue with the comparison off by one (u8Attempt > 1).
EvalDueEarly(attempt) == attempt > AttemptLimit - 1

\* if (u8Attempt > 2)
EvalDue(attempt) == attempt > AttemptLimit

\* Consensus comparing only the first two frames of the group.
ConsensusFirstTwo(t) == t[0] = t[1]

\* if (u16Temp[0] == u16Temp[1] && u16Temp[1] == u16Temp[2])
Consensus(t) == t[0] = t[1] /\ t[1] = t[2]

\* _stDriver.u32Port0Tx = _stDriver.u16InputData
EncodeLoad(state) == U32Of(state)

\* EncodeShift on a 16-bit buffer: the top bit of the state falls off.
EncodeShift16(tx) == << 0, (U32Lo(tx) * 2) % Half >>

\* _stDriver.u32Port0Tx = _stDriver.u32Port0Tx << 1
EncodeShift(tx) == U32Shl1(tx)

\* _stDriver.u32Port0Tx &= ~(1 << 0)
EncodeMask(tx) == U32ClearBit0(tx)

\* The three statements together.
Encode(state) == EncodeMask(EncodeShift(EncodeLoad(state)))

(***************************************************************************)
(* Calls made by other tasks.                                              *)
(***************************************************************************)
\* spi_slave_initialize(HSPI_HOST, &stPort0Bus, &stPort0, 0): the peripheral
\* bound to the pins of controller port 0.
Port0Host == "HSPI"
\* spi_slave_initialize(VSPI_HOST, &stPort1Bus, &stPort1, 0): the peripheral
\* bound to the pins of controller port 1.
Port1Host == "VSPI"
\* stTrans0.tx_buffer = &_stDriver.u32Port0Tx
TransBuffer == "u32Port0Tx"
\* spi_slave_queue_trans(VSPI_HOST, &stTrans0, 0): the peripheral whose queue
\* receives the transaction (the queue counted by vspiQueued).
TransHost == "VSPI"
\* stLatch.tx_config.idle_level = RMT_IDLE_LEVEL_LOW
LatchIdle == 0
\* stClock.tx_config.idle_level = RMT_IDLE_LEVEL_HIGH
ClockIdle == 1

\* stLatch.channel = RMT_CHANNEL_0
LatchChannel == 0
\* stClock.channel = RMT_CHANNEL_1
ClockChannel == 1

\* Reasons for which an ESP_ERROR_CHECK in InitSNES aborts.
InitFailures == { "gpio", "hspi", "vspi" }

\* The peripherals InitSNES acquires: the two SPI slave hosts and the two
\* RMT channels.
Resources == { Port0Host, Port1Host, "RMT0", "RMT1" }

\* What InitSNES holds when the checked call `why` fails: the calls before
\* it have succeeded.
Acquired(why) == IF why = "vspi" THEN { Port0Host } ELSE {}

\* _InitSNESSigGen: the one latch item.
LatchItems ==
    [ i \in 0..(NumLatchItems - 1) |-> Item(LatchTicks, 1, 0, 0) ]

\* ClockItems with the loop stopping one item early (u8Index < 16).
ClockItemsShort ==
    [ i \in 0..(NumClockItems - 1) |->
        IF i = 0 THEN Item(HalfTicks, 1, LeadTailTicks, 1)
        ELSE IF i < NumClockItems - 1 THEN Item(HalfTicks, 0, HalfTicks, 1)
        ELSE Item(0, 0, 0, 0) ]

\* ClockItems with a low half of 7 ticks in items 1..16: a cycle of 13 ticks.
ClockItemsSlow ==
    [ i \in 0..(NumClockItems - 1) |->
        IF i = 0 THEN Item(HalfTicks, 1, LeadTailTicks, 1)
        ELSE Item(HalfTicks + 1, 0, HalfTicks, 1) ]

\* _InitSNESSigGen: the leading clock item and the loop over items 1..16.
ClockItems ==
    [ i \in 0..(NumClockItems - 1) |->
        IF i = 0 THEN Item(HalfTicks, 1, LeadTailTicks, 1)
        ELSE Item(HalfTicks, 0, HalfTicks, 1) ]

\* InitSNES, every call succeeding: the driver data is reset, the
\* peripherals are acquired, the waveforms are written and the read thread
\* is created.
InitSNES ==
    /\ sys = "boot"
    /\ sys' = "up"
    /\ bIsRunning' = TRUE
    /\ u16InputData' = InitInputData
    /\ u32Port0Tx' = InitPortTx
    /\ u32Port1Tx' = InitPortTx
    /\ sig' = [ latch |-> LatchItems, clock |-> ClockItems ]
    /\ pc' = "while"
    /\ u16Temp' = [ i \in 0..(NumSlots - 1) |-> InitTemp ]
    /\ u8Attempt' = 0
    /\ u8Bit' = 0
    /\ hist' = [ hist EXCEPT !.claimed = Resources, !.threads = @ + 1 ]
    /\ UNCHANGED << dbg, wifi, envVars, ret, captures, evals, it >>

\* InitSNES with a checked call failing: ESP_ERROR_CHECK aborts after the
\* driver data was reset and before the thread is created.
InitSNESAbort ==
    /\ sys = "boot"
    /\ \E why \in InitFailures :
          /\ sys' = "aborted"
          /\ hist' = [ hist EXCEPT !.claimed = Acquired(why) ]
    /\ bIsRunning' = TRUE
    /\ u16InputData' = InitInputData
    /\ u32Port0Tx' = InitPortTx
    /\ u32Port1Tx' = InitPortTx
    /\ UNCHANGED << auxVars, threadVars, envVars, ret, captures, evals, it >>

\* Positions of the read thread inside a loop iteration.
IterPcs ==
    { "latch", "clock", "settle", "cycle", "check", "cmp",
      "tx1", "tx2", "tx3", "queue", "reset", "delay" }

\* Positions of the read thread from the latch to the last sample cycle.
CapturePcs == { "latch", "clock", "settle", "cycle" }

\* DeInitSNES: the stop request.
DeInitSNES ==
    /\ sys # "aborted"
    /\ bIsRunning' = FALSE
    /\ hist' = [ hist EXCEPT
                   !.stopMidIter = @ \/ (bIsRunning /\ pc \in IterPcs),
                   !.stopInCapture = @ \/ (bIsRunning /\ pc \in CapturePcs) ]
    /\ UNCHANGED << auxVars,
                    sys, u16InputData, u32Port0Tx, u32Port1Tx, threadVars,
                    envVars, ret, captures, evals, it >>

\* GetSNESInputData: a plain read, called by the application after InitSNES.
GetSNESInputData ==
    /\ sys = "up"
    /\ ret' = u16InputData
    /\ UNCHANGED << auxVars, sys, driverVars, threadVars, envVars, histVars >>

(***************************************************************************)
(* _SNESReadInputThread.                                                   *)
(***************************************************************************)
\* while (_stDriver.bIsRunning): condition true, a new iteration begins.
WhileEnter ==
    /\ pc = "while"
    /\ LoopCond(bIsRunning)
    /\ captures < MaxCaptures
    /\ pc' = "latch"
    /\ it' = [ FreshIter EXCEPT !.in0 = u16InputData, !.tx0 = u32Port0Tx ]
    /\ hist' = [ hist EXCEPT !.lateIter = @ \/ ~bIsRunning ]
    /\ UNCHANGED << auxVars,
                    sys, driverVars, u16Temp, u8Attempt, u8Bit, envVars, ret,
                    captures, evals >>

\* while (_stDriver.bIsRunning): condition false, the loop is left.
WhileExit ==
    /\ pc = "while"
    /\ ~LoopCond(bIsRunning)
    /\ pc' = "delete"
    /\ UNCHANGED << auxVars,
                    sys, driverVars, u16Temp, u8Attempt, u8Bit, envVars, ret,
                    histVars >>

(***************************************************************************)
(* The waveform an item array puts on the line.                            *)
(***************************************************************************)
\* The (duration, level) halves of items i..n-1 in the order they are
\* played; a half of duration 0 ends the transmission.
RECURSIVE HalvesFrom(_, _, _)
HalvesFrom(items, i, n) ==
    IF i >= n \/ Duration0(items[i]) = 0 THEN << >>
    ELSE << << Duration0(items[i]), Level0(items[i]) >> >> \o
         ( IF Duration1(items[i]) = 0 THEN << >>
           ELSE << << Duration1(items[i]), Level1(items[i]) >> >> \o
                HalvesFrom(items, i + 1, n) )

\* The first n items of an item array, as handed to rmt_write_items.
FirstItems(items, n) == [ i \in 0..(n - 1) |-> items[i] ]

\* The halves of a whole item array.
Halves(items) == HalvesFrom(items, 0, Cardinality(DOMAIN items))

\* The time the halves take, in RMT ticks.
RECURSIVE TotalTicks(_)
TotalTicks(h) == IF h = << >> THEN 0 ELSE h[1][1] + TotalTicks(Tail(h))

\* The levels of the line: the idle level, the halves, the idle level.
LineLevels(h, idle) ==
    << idle >> \o [ k \in 1..Len(h) |-> h[k][2] ] \o << idle >>

\* Places where the line goes from level a to level b.
EdgeCount(l, a, b) ==
    Cardinality({ k \in 1..(Len(l) - 1) : l[k] = a /\ l[k + 1] = b })

FallingEdges(items, idle) == EdgeCount(LineLevels(Halves(items), idle), 1, 0)
RisingEdges(items, idle)  == EdgeCount(LineLevels(Halves(items), idle), 0, 1)

\* The ticks, counted from the start of the emission, at which the line goes
\* from level a to level b.  l is LineLevels(h, idle); place k lies between
\* l[k] and l[k + 1] and is reached after the halves 1..k-1, at tick t.
RECURSIVE EdgeTimesFrom(_, _, _, _, _, _)
EdgeTimesFrom(l, h, k, t, a, b) ==
    IF k >= Len(l) THEN << >>
    ELSE ( IF l[k] = a /\ l[k + 1] = b THEN << t >> ELSE << >> ) \o
         EdgeTimesFrom(l, h, k + 1,
                       t + (IF k <= Len(h) THEN h[k][1] ELSE 0), a, b)

\* The ticks at which the first n items of an array make the line fall.
FallTimes(items, n, idle) ==
    LET h == Halves(FirstItems(items, n))
    IN  EdgeTimesFrom(LineLevels(h, idle), h, 1, 0, 1, 0)

\* What an emission of the first n items of an array puts on a line with the
\* given idle level: the number of items, the ticks it lasts, its edges.
Emission(items, n, idle) ==
    LET h == Halves(FirstItems(items, n))
        l == LineLevels(h, idle)
    IN  [ n |-> n, ticks |-> TotalTicks(h),
          rises |-> EdgeCount(l, 0, 1), falls |-> EdgeCount(l, 1, 0) ]

\* What the items written by _InitSNESSigGen put on the two lines.
LatchEmission == Emission(LatchItems, NumLatchItems, LatchIdle)
ClockEmission == Emission(ClockItems, NumClockItems, ClockIdle)

\* The outcomes of rmt_write_items on a channel: it fails when no driver is
\* installed on the channel, and may fail or succeed otherwise.
WriteOutcomes(channel) ==
    IF channel \in hist.claimed THEN BOOLEAN ELSE { FALSE }

\* SendLatch lengthening the pulse stored in stLatchItem at every call.
SendLatchStretch ==
    /\ pc = "latch"
    /\ \E ok \in WriteOutcomes("RMT0"), w \in PatternSet :
          /\ latched' = w
          /\ it' = [ it EXCEPT !.latch = TRUE, !.emitFailed = @ \/ ~ok,
                               !.latchOut = NumLatchItems ]
    /\ sig' = [ sig EXCEPT !.latch[0][1] = @ + 1 ]
    /\ pc' = "clock"
    /\ UNCHANGED << dbg, wifi, sys, driverVars, u16Temp, u8Attempt, u8Bit,
                    vspiQueued, ret, captures, evals, hist >>

\* SendLatch(): rmt_write_items(stLatch.channel, stLatchItem, 1, 0), its
\* result discarded.  The controller latches its buttons; the waveform it
\* will shift out is an input.
SendLatch ==
    /\ pc = "latch"
    /\ \E ok \in WriteOutcomes("RMT0"), w \in PatternSet :
          /\ latched' = w
          /\ it' = [ it EXCEPT !.latch = TRUE, !.emitFailed = @ \/ ~ok,
                               !.latchOut = NumLatchItems ]
    /\ pc' = "clock"
    /\ UNCHANGED << auxVars,
                    sys, driverVars, u16Temp, u8Attempt, u8Bit, vspiQueued,
                    ret, captures, evals, hist >>

\* SendClock(): rmt_write_items(stClock.channel, stClockItem, 17, 0), its
\* result discarded.
SendClock ==
    /\ pc = "clock"
    /\ \E ok \in WriteOutcomes("RMT1") :
          it' = [ it EXCEPT !.clock = TRUE, !.emitFailed = @ \/ ~ok,
                           !.clockOut = NumClockItems ]
    /\ pc' = "settle"
    /\ UNCHANGED << auxVars,
                    sys, driverVars, u16Temp, u8Attempt, u8Bit, envVars, ret,
                    captures, evals, hist >>

\* ets_delay_us(3); u8Bit = 0.
SettleDelay ==
    /\ pc = "settle"
    /\ u8Bit' = 0
    /\ it' = [ it EXCEPT !.settle = TRUE, !.stale = u16Temp[u8Attempt],
                         !.delays = @ + 1, !.elapsed = @ + SettleUs ]
    /\ pc' = "cycle"
    /\ UNCHANGED << auxVars,
                    sys, driverVars, u16Temp, u8Attempt, envVars, ret,
                    captures, evals, hist >>

\* SampleCycle testing the run flag in the for loop and leaving the
\* iteration when it is cleared.
SampleCycleStoppable ==
    /\ pc = "cycle"
    /\ u8Bit < NumCycles
    /\ IF bIsRunning
       THEN /\ LET l1 == LineLevel(latched, u8Bit) IN
               \E l2 \in SecondLevels(l1, u8Bit) :
                  u16Temp' = [ u16Temp EXCEPT
                                 ![u8Attempt] = SampleBit(@, u8Bit, l1, l2) ]
            /\ it' = [ it EXCEPT !.cycles = @ + 1, !.delays = @ + 2,
                                 !.elapsed = @ + 2 * HalfDelayUs,
                                 !.firstAt = IF it.cycles = 0
                                             THEN it.elapsed + HalfDelayUs
                                             ELSE @,
                                 !.sampleAt = it.elapsed + HalfDelayUs ]
            /\ u8Bit' = u8Bit + 1
            /\ pc' = pc
       ELSE /\ pc' = "while"
            /\ UNCHANGED << auxVars, u16Temp, it, u8Bit >>
    /\ UNCHANGED << auxVars,
                    sys, driverVars, u8Attempt, envVars, ret, captures,
                    evals, hist >>
\* SampleCycle with the second half period replaced by a wait for the line
\* to be high: a cycle that reads the line low waits one more half period.
SampleCycleWaitHigh ==
    /\ pc = "cycle"
    /\ u8Bit < NumCycles
    /\ LET l1 == LineLevel(latched, u8Bit) IN
       \E l2 \in SecondLevels(l1, u8Bit) :
          /\ u16Temp' = [ u16Temp EXCEPT
                            ![u8Attempt] = SampleBit(@, u8Bit, l1, l2) ]
          /\ it' = [ it EXCEPT
                       !.cycles = @ + 1,
                       !.glitched = IF u8Bit < NumSampled /\ l1 = 1 /\ l2 = 0
                                    THEN @ \cup {u8Bit} ELSE @,
                       !.delays = @ + (IF l1 = 0 THEN 3 ELSE 2),
                       !.elapsed = @ + (IF l1 = 0 THEN 3 ELSE 2) * HalfDelayUs,
                       !.firstAt = IF it.cycles = 0
                                   THEN it.elapsed + HalfDelayUs ELSE @,
                       !.sampleAt = it.elapsed + HalfDelayUs ]
    /\ u8Bit' = u8Bit + 1
    /\ UNCHANGED << auxVars,
                    sys, driverVars, pc, u8Attempt, envVars, ret, captures,
                    evals, hist >>

\* One pass of the for loop: half period, sample, half period, u8Bit++.
SampleCycle ==
    /\ pc = "cycle"
    /\ u8Bit < NumCycles
    /\ LET l1 == LineLevel(latched, u8Bit) IN
       \E l2 \in SecondLevels(l1, u8Bit) :
          /\ u16Temp' = [ u16Temp EXCEPT
                            ![u8Attempt] = SampleBit(@, u8Bit, l1, l2) ]
          /\ it' = [ it EXCEPT
                       !.cycles = @ + 1,
                       !.glitched = IF u8Bit < NumSampled /\ l1 = 1 /\ l2 = 0
                                    THEN @ \cup {u8Bit} ELSE @,
                       !.delays = @ + 2,
                       !.elapsed = @ + 2 * HalfDelayUs,
                       !.firstAt = IF it.cycles = 0
                                   THEN it.elapsed + HalfDelayUs ELSE @,
                       !.sampleAt = it.elapsed + HalfDelayUs ]
    /\ u8Bit' = u8Bit + 1
    /\ UNCHANGED << auxVars,
                    sys, driverVars, pc, u8Attempt, envVars, ret, captures,
                    evals, hist >>

\* The for loop ends; u8Attempt++.
EndCapture ==
    /\ pc = "cycle"
    /\ ~(u8Bit < NumCycles)
    /\ u8Attempt' = U8(u8Attempt + 1)
    /\ captures' = captures + 1
    /\ pc' = "check"
    /\ UNCHANGED << auxVars,
                    sys, driverVars, u16Temp, u8Bit, envVars, ret, evals,
                    it, hist >>

\* if (u8Attempt > 2): a group of three is complete.
EvalGroup ==
    /\ pc = "check"
    /\ EvalDue(u8Attempt)
    /\ evals' = evals + 1
    /\ it' = [ it EXCEPT !.consensus = TRUE, !.evaluated = TRUE ]
    /\ pc' = "cmp"
    /\ UNCHANGED << auxVars,
                    sys, driverVars, u16Temp, u8Attempt, u8Bit, envVars, ret,
                    captures, hist >>

\* if (u8Attempt > 2): the group is not complete yet.
SkipEval ==
    /\ pc = "check"
    /\ ~EvalDue(u8Attempt)
    /\ it' = [ it EXCEPT !.consensus = TRUE ]
    /\ pc' = "delay"
    /\ UNCHANGED << auxVars,
                    sys, driverVars, u16Temp, u8Attempt, u8Bit, envVars, ret,
                    captures, evals, hist >>

\* The three frames agree: _stDriver.u16InputData = u16Temp[0].
CommitGroup ==
    /\ pc = "cmp"
    /\ Consensus(u16Temp)
    /\ u16InputData' = u16Temp[0]
    /\ it' = [ it EXCEPT !.wrote = TRUE ]
    /\ hist' = [ hist EXCEPT !.committed = TRUE,
                             !.lateWrites = IF bIsRunning THEN @ ELSE @ + 1 ]
    /\ pc' = "tx1"
    /\ UNCHANGED << auxVars, sys, bIsRunning, u32Port0Tx, u32Port1Tx, u16Temp,
                    u8Attempt, u8Bit, envVars, ret, captures, evals >>

\* RejectGroup storing the first frame although the group disagrees.
RejectGroupWrites ==
    /\ pc = "cmp"
    /\ ~Consensus(u16Temp)
    /\ u16InputData' = u16Temp[0]
    /\ pc' = "tx1"
    /\ UNCHANGED << auxVars, sys, bIsRunning, u32Port0Tx, u32Port1Tx, u16Temp,
                    u8Attempt, u8Bit, envVars, ret, histVars >>

\* The three frames disagree: nothing is written.
RejectGroup ==
    /\ pc = "cmp"
    /\ ~Consensus(u16Temp)
    /\ pc' = "tx1"
    /\ UNCHANGED << auxVars,
                    sys, driverVars, u16Temp, u8Attempt, u8Bit, envVars, ret,
                    histVars >>

\* _stDriver.u32Port0Tx = _stDriver.u16InputData;
TxLoad ==
    /\ pc = "tx1"
    /\ u32Port0Tx' = EncodeLoad(u16InputData)
    /\ pc' = "tx2"
    /\ UNCHANGED << auxVars,
                    sys, bIsRunning, u16InputData, u32Port1Tx, u16Temp,
                    u8Attempt, u8Bit, envVars, ret, histVars >>

\* _stDriver.u32Port0Tx = _stDriver.u32Port0Tx << 1;
TxShift ==
    /\ pc = "tx2"
    /\ u32Port0Tx' = EncodeShift(u32Port0Tx)
    /\ pc' = "tx3"
    /\ UNCHANGED << auxVars,
                    sys, bIsRunning, u16InputData, u32Port1Tx, u16Temp,
                    u8Attempt, u8Bit, envVars, ret, histVars >>

\* _stDriver.u32Port0Tx &= ~(1 << 0);
TxMask ==
    /\ pc = "tx3"
    /\ u32Port0Tx' = EncodeMask(u32Port0Tx)
    /\ pc' = "queue"
    /\ UNCHANGED << auxVars,
                    sys, bIsRunning, u16InputData, u32Port1Tx, u16Temp,
                    u8Attempt, u8Bit, envVars, ret, histVars >>
\* QueueTrans waiting for room in the queue (ticks_to_wait = portMAX_DELAY).
QueueTransBlocking ==
    /\ pc = "queue"
    /\ vspiQueued < QueueSize
    /\ vspiQueued' = vspiQueued + 1
    /\ it' = [ it EXCEPT !.queued = TRUE ]
    /\ hist' = [ hist EXCEPT !.queueCalls = @ + 1 ]
    /\ pc' = "reset"
    /\ UNCHANGED << auxVars,
                    sys, driverVars, u16Temp, u8Attempt, u8Bit, latched, ret,
                    captures, evals >>

\* QueueTrans with the call wrapped in ESP_ERROR_CHECK: a full queue aborts.
QueueTransChecked ==
    /\ pc = "queue"
    /\ IF vspiQueued < QueueSize
       THEN /\ vspiQueued' = vspiQueued + 1
            /\ it' = [ it EXCEPT !.queued = TRUE ]
            /\ sys' = sys
       ELSE /\ vspiQueued' = vspiQueued
            /\ it' = [ it EXCEPT !.dropped = TRUE ]
            /\ sys' = "aborted"
    /\ hist' = [ hist EXCEPT !.queueCalls = @ + 1 ]
    /\ pc' = "reset"
    /\ UNCHANGED << auxVars,
                    driverVars, u16Temp, u8Attempt, u8Bit, latched, ret,
                    captures, evals >>

\* spi_slave_queue_trans(VSPI_HOST, &stTrans0, 0): queued when the queue has
\* room, refused at once otherwise; the result is discarded.
QueueTrans ==
    /\ pc = "queue"
    /\ IF vspiQueued < QueueSize
       THEN /\ vspiQueued' = vspiQueued + 1
            /\ it' = [ it EXCEPT !.queued = TRUE ]
       ELSE /\ vspiQueued' = vspiQueued
            /\ it' = [ it EXCEPT !.dropped = TRUE ]
    /\ hist' = [ hist EXCEPT !.queueCalls = @ + 1 ]
    /\ pc' = "reset"
    /\ UNCHANGED << auxVars,
                    sys, driverVars, u16Temp, u8Attempt, u8Bit, latched, ret,
                    captures, evals >>

\* ResetAttempt leaving the index as it is.
ResetAttemptSkips ==
    /\ pc = "reset"
    /\ pc' = "delay"
    /\ UNCHANGED << auxVars,
                    sys, driverVars, u16Temp, u8Attempt, u8Bit, envVars, ret,
                    histVars >>

\* u8Attempt = 0;
ResetAttempt ==
    /\ pc = "reset"
    /\ u8Attempt' = 0
    /\ pc' = "delay"
    /\ UNCHANGED << auxVars,
                    sys, driverVars, u16Temp, u8Bit, envVars, ret, histVars >>

\* vTaskDelay(5 / portTICK_PERIOD_MS);
TaskDelay ==
    /\ pc = "delay"
    /\ it' = [ it EXCEPT !.delay = TRUE ]
    /\ pc' = "while"
    /\ UNCHANGED << auxVars,
                    sys, driverVars, u16Temp, u8Attempt, u8Bit, envVars, ret,
                    captures, evals, hist >>

\* vTaskDelete(NULL);
TaskDelete ==
    /\ pc = "delete"
    /\ pc' = "done"
    /\ hist' = [ hist EXCEPT !.threads = @ - 1 ]
    /\ UNCHANGED << auxVars,
                    sys, driverVars, u16Temp, u8Attempt, u8Bit, envVars, ret,
                    captures, evals, it >>

(***************************************************************************)
(* The SPI slave peripheral: the console clocks a queued transaction out.  *)
(***************************************************************************)
SpiTransfer ==
    /\ sys = "up"
    /\ vspiQueued > 0
    /\ vspiQueued' = vspiQueued - 1
    /\ UNCHANGED << auxVars,
                    sys, driverVars, threadVars, latched, ret, histVars >>

ThreadStep ==
    \/ WhileEnter \/ WhileExit
    \/ SendLatch \/ SendClock \/ SettleDelay
    \/ SampleCycle \/ EndCapture
    \/ EvalGroup \/ SkipEval \/ CommitGroup \/ RejectGroup
    \/ TxLoad \/ TxShift \/ TxMask \/ QueueTrans \/ ResetAttempt
    \/ TaskDelay \/ TaskDelete

Next ==
    \/ InitSNES \/ InitSNESAbort \/ DeInitSNES \/ GetSNESInputData
    \/ ThreadStep
    \/ SpiTransfer

Spec == Init /\ [][Next]_vars

TypeOK ==
    /\ sys \in { "boot", "up", "aborted" }
    /\ bIsRunning \in BOOLEAN
    /\ u16InputData \in 0..(Pow2(16) - 1)
    /\ u32Port0Tx \in (0..(Half - 1)) \X (0..(Half - 1))
    /\ u8Attempt \in 0..AttemptLimit + 1
    /\ u8Bit \in 0..NumCycles
    /\ \A i \in 0..(NumSlots - 1) : u16Temp[i] \in 0..(Pow2(16) - 1)
    /\ vspiQueued \in 0..QueueSize
    /\ captures \in 0..MaxCaptures

(***************************************************************************)
(* Properties of the consensus filter.                                     *)
(***************************************************************************)
\* The three frames held in the accumulation slots are equal.  From the third
\* capture on, the slots hold the three most recently captured frames.
SlotsEqual == u16Temp[0] = u16Temp[1] /\ u16Temp[1] = u16Temp[2]

\* The read thread has finished the capture and consensus steps of an
\* iteration and is at the inter-cycle delay.
AtDelay == pc = "delay"

\* C1 as stated: after every captured frame, CommittedState is written if and
\* only if the 3 most recently captured frames are identical (a sliding
\* window over all captures), and then equals their common value.
\* Read on the values alone: when they are identical CommittedState holds
\* their common value after the capture, and otherwise it holds the value it
\* had before the capture.
C1_SlidingWindow ==
    (AtDelay /\ captures >= NumSlots) =>
        /\ SlotsEqual => u16InputData = u16Temp[0]
        /\ ~SlotsEqual => u16InputData = it.in0

\* C1 amended: after every captured frame, CommittedState is written if and
\* only if that capture completes a group of 3 (it is the 3rd, 6th, ...
\* capture) and the 3 frames of the group are identical; when written it
\* equals their common value.
C1_GroupOfThree ==
    AtDelay =>
        /\ it.wrote <=> (captures % NumSlots = 0 /\ SlotsEqual)
        /\ it.wrote => (u16InputData = u16Temp[0] /\ u16InputData = u16Temp[2])

\* C1 witness: a capture completed a group whose frames agree on a value
\* other than the initial one, and it was committed.
C1_Witness ==
    /\ AtDelay
    /\ it.wrote
    /\ u16InputData # InitInputData
    /\ u16InputData = u16Temp[1]

\* C2: the filter works on consecutive non-overlapping groups of 3: the
\* evaluation runs exactly after every third capture (evals counts them),
\* it overwrites CommittedState with the group's value when the 3 frames are
\* equal and leaves it as it was otherwise, and u8Attempt restarts at 0 so
\* that capture number n always fills slot n mod 3.
C2_Step ==
    /\ (pc = "check" /\ pc' # pc) => (pc' = "cmp" <=> captures % NumSlots = 0)
    /\ (pc = "cmp" /\ pc' # pc) =>
          u16InputData' = IF SlotsEqual THEN u16Temp[0] ELSE u16InputData
    /\ (pc # "cmp" /\ sys = "up") => u16InputData' = u16InputData
    /\ (pc' \in {"delay", "while"}) =>
          (evals' = captures' \div NumSlots /\ u8Attempt' = captures' % NumSlots)
    /\ (pc' \in {"latch", "clock", "settle", "cycle"}) =>
          u8Attempt' = captures' % NumSlots

C2_NonOverlappingGroups == [][C2_Step]_vars

\* C2 witness: the second group of 3 has been evaluated and committed after
\* the first group was evaluated without a commit.
C2_Witness ==
    /\ AtDelay
    /\ evals = 2
    /\ captures = 2 * NumSlots
    /\ it.wrote
    /\ it.in0 = InitInputData
    /\ u16InputData # InitInputData
    /\ u8Attempt = 0

\* C3: from InitSNES until the first consensus commit the committed state is
\* 0xFFFF and every GetSNESInputData call has returned 0xFFFF; the call is
\* always enabled (it never waits).
C3_DefaultUntilCommit ==
    sys = "up" =>
        /\ ENABLED GetSNESInputData
        /\ ~hist.committed =>
              (u16InputData = InitInputData /\ ret \in {-1, InitInputData})

\* C3 witness: two groups were evaluated and rejected, nothing has been
\* committed, and a GetSNESInputData call returned 0xFFFF.
C3_Witness ==
    /\ sys = "up"
    /\ ~hist.committed
    /\ evals = 2
    /\ ret = InitInputData

(***************************************************************************)
(* The re-transmission encoder on every 16-bit state: the read thread at   *)
(* the three statements that rewrite the TX buffer, CommittedState being   *)
(* any uint16_t value.                                                     *)
(***************************************************************************)
EncInit ==
    /\ sys = "up"
    /\ bIsRunning = TRUE
    /\ u16InputData \in 0..(Half - 1)
    /\ u32Port0Tx = InitPortTx
    /\ u32Port1Tx = InitPortTx
    /\ pc = "tx1"
    /\ u16Temp = [ i \in 0..(NumSlots - 1) |-> InitTemp ]
    /\ u8Attempt = AttemptLimit + 1
    /\ u8Bit = NumCycles
    /\ latched = Waveforms[1]
    /\ vspiQueued = 0
    /\ ret = -1
    /\ captures = NumSlots
    /\ evals = 1
    /\ it = FreshIter
    /\ hist = [ FreshHist EXCEPT !.claimed = Resources, !.threads = 1 ]
    /\ sig = [ latch |-> LatchItems, clock |-> ClockItems ]
    /\ dbg = FreshDbg
    /\ wifi = FreshWifi

EncNext == TxLoad \/ TxShift \/ TxMask

EncSpec == EncInit /\ [][EncNext]_vars

\* C4: once the three encoder statements have run, the TX frame has bit 0
\* low and, shifted right by one position, equals the committed state (bit
\* 15 of the state is kept, in bit 16 of the frame).
C4_EncodeShiftsLeft ==
    pc = "queue" =>
        /\ U32Lo(u32Port0Tx) % 2 = 0
        /\ U32Shr1(u32Port0Tx) = << 0, u16InputData >>

\* C4 witness: a state with bit 15 set has been encoded, and bit 16 of the
\* frame carries it.
C4_Witness ==
    /\ pc = "queue"
    /\ u16InputData >= Pow2(15)
    /\ U32Hi(u32Port0Tx) = 1
    /\ U32Lo(u32Port0Tx) = (u16InputData * 2) % Half

(***************************************************************************)
(* Stop semantics.                                                         *)
(***************************************************************************)
\* The read thread has left its loop.
LoopLeft == pc \in { "delete", "done" }

\* C5 as stated: once DeInitSNES has been called, CommittedState never
\* changes again.
C5_NoWriteAfterStop ==
    [][(sys = "up" /\ ~bIsRunning) => u16InputData' = u16InputData]_vars

\* C5 amended: once DeInitSNES has been called, CommittedState is written at
\* most once more, and only by the loop iteration that was in progress when
\* DeInitSNES was called; once the read loop has been left no write occurs
\* and every GetSNESInputData call returns the last committed value.
C5_Step ==
    /\ (sys = "up" /\ ~bIsRunning /\ u16InputData' # u16InputData) =>
          (pc = "cmp" /\ hist.stopMidIter /\ ~hist.lateIter
                      /\ hist.lateWrites = 0)
    /\ hist.lateWrites' <= 1
    /\ hist.lateWrites' = 1 => hist.stopMidIter'
    /\ LoopLeft =>
          /\ u16InputData' = u16InputData
          /\ hist.lateWrites' = hist.lateWrites
          /\ ret' # ret => ret' = u16InputData

C5_WriteOnlyByIterationInProgress == [][C5_Step]_vars

\* C5 witness: the iteration in progress at DeInitSNES committed a new
\* value, the thread has ended, and GetSNESInputData returned that value.
C5_Witness ==
    /\ pc = "done"
    /\ hist.lateWrites = 1
    /\ u16InputData # it.in0
    /\ ret = u16InputData

\* An iteration that has made every step: latch, clock train, settle delay,
\* 16 sample cycles, the consensus step and the inter-cycle delay.
IterComplete(i) ==
    /\ i.latch /\ i.clock /\ i.settle
    /\ i.cycles = NumCycles
    /\ i.consensus
    /\ i.delay

\* C6: the stop request is observed only at the loop head: the thread leaves
\* the loop only from the while test, an iteration that has begun stays in
\* the iteration until it returns to the while test, and it returns there
\* only with every step made.
C6_Step ==
    /\ (pc' = "delete" /\ pc # "delete") => pc = "while"
    /\ pc \in IterPcs => pc' \in IterPcs \cup { "while" }
    /\ (pc \in IterPcs /\ pc' = "while") => IterComplete(it')

C6_StopAtIterationBoundary == [][C6_Step]_vars

\* C6 witness: DeInitSNES was called before the capture of the iteration had
\* finished, and the thread is back at the while test with every step of
\* that iteration made.
C6_Witness ==
    /\ pc = "while"
    /\ ~bIsRunning
    /\ hist.stopInCapture
    /\ IterComplete(it)

\* The read thread keeps being scheduled.
FairSpec == Spec /\ WF_vars(ThreadStep)

\* C7: once DeInitSNES has been called on a started driver the read thread
\* eventually ends, and no loop iteration ever begins after the call.
C7_EventuallyStopped ==
    /\ [](~hist.lateIter)
    /\ (sys = "up" /\ ~bIsRunning) ~> (pc = "done")

\* C7 witness: the thread has ended after a DeInitSNES call made in the
\* middle of a capture.
C7_Witness ==
    /\ pc = "done"
    /\ hist.stopInCapture
    /\ ~hist.lateIter

(***************************************************************************)
(* Runtime conditions that are not errors.                                 *)
(***************************************************************************)
\* C8 as stated: an iteration whose group of 3 disagrees changes no driver
\* state: at its inter-cycle delay CommittedState and the TX buffer are what
\* they were when the iteration began.
C8_NoStateChange ==
    (AtDelay /\ it.evaluated /\ ~it.wrote) =>
        (u16InputData = it.in0 /\ u32Port0Tx = it.tx0)

\* C8 amended: the loop is left only from the while test with the run flag
\* cleared and the driver never aborts at run time; a disagreeing group, a
\* failed emission call and a refused queue attempt raise no error and the
\* iteration goes on to its next step; a disagreeing group leaves
\* CommittedState unchanged, the TX buffer is still rewritten with the
\* encoding of that unchanged CommittedState and a transmission is still
\* attempted, and u8Attempt restarts at 0.
C8_Step ==
    /\ sys = "up" => sys' = "up"
    /\ (pc' \in { "delete", "done" } /\ pc \notin { "delete", "done" }) =>
          (pc = "while" /\ ~bIsRunning)
    /\ (pc = "latch" /\ pc' # pc) => pc' = "clock"
    /\ (pc = "clock" /\ pc' # pc) => pc' = "settle"
    /\ (pc = "cmp" /\ pc' # pc /\ ~SlotsEqual) =>
          (pc' = "tx1" /\ u16InputData' = u16InputData)
    /\ (pc = "queue" /\ pc' # pc) =>
          (pc' = "reset" /\ driverVars' = driverVars)
    /\ (pc = "reset" /\ pc' # pc) =>
          /\ pc' = "delay"
          /\ u8Attempt' = 0
          /\ driverVars' = driverVars
          /\ u32Port0Tx = Encode(u16InputData)
          /\ ~it.wrote => u16InputData = it.in0
    /\ (pc = "delay" /\ pc' # pc) => (pc' = "while" /\ IterComplete(it'))

C8_OnlyStopEndsLoop == [][C8_Step]_vars

\* C8 witness: an iteration in which an emission call failed, the group of 3
\* disagreed and the transmission was refused has come back to the while
\* test with the run flag still set.
C8_Witness ==
    /\ pc = "while"
    /\ bIsRunning
    /\ it.emitFailed
    /\ it.evaluated
    /\ ~it.wrote
    /\ it.dropped
    /\ IterComplete(it)
    /\ captures < MaxCaptures

(***************************************************************************)
(* The captured frame.                                                     *)
(***************************************************************************)
\* Bits 12..15 of a frame, as a number 0..15.
Reserved(frame) == frame \div Pow2(NumSampled)

\* Bits 0..11 of a frame.
Sampled(frame) == frame % Pow2(NumSampled)

\* All four reserved bits set.
ReservedAllHigh == Pow2(NumCycles - NumSampled) - 1

\* The capture of this iteration is complete; its frame is in LastFrame.
CaptureDone == pc = "check"
LastFrame == u16Temp[u8Attempt - 1]

\* C9 as stated: every captured frame has bits 12-15 low, and so has every
\* value the consensus filter committed.
C9_ReservedLow ==
    /\ CaptureDone => Reserved(LastFrame) = 0
    /\ hist.committed => Reserved(u16InputData) = 0

\* C9 amended: bits 12-15 of every frame slot are high at all times (cycles
\* 12-15 never write the frame, which starts at 0xFFFF, whatever the line
\* does in those cycles), and so CommittedState has bits 12-15 high from
\* InitSNES on, after every commit.
C9_ReservedHigh ==
    /\ \A i \in 0..(NumSlots - 1) : Reserved(u16Temp[i]) = ReservedAllHigh
    /\ sys = "up" => Reserved(u16InputData) = ReservedAllHigh
    /\ (pc = "cycle" /\ u8Bit > NumSampled) =>
          \A i \in 0..(NumSampled - 1) \ it.glitched :
             Bit(u16Temp[u8Attempt], i) = LineLevel(latched, i)

\* C9 witness: a group of frames captured while the line was low during
\* cycles 12-15 and cycle 0 has been committed; bits 12-15 are high and bit
\* 0 is low.
C9_Witness ==
    /\ AtDelay
    /\ it.wrote
    /\ Reserved(latched) = 0
    /\ Reserved(u16InputData) = ReservedAllHigh
    /\ Sampled(u16InputData) = Sampled(latched)
    /\ Bit(u16InputData, 0) = 0

\* The level returned by the second read of cycle i of this capture.
SecondRead(i) ==
    IF i \in it.glitched THEN 0 ELSE LineLevel(latched, i)

\* The frame the first n cycles of this capture's reads build from a slot
\* that holds `start`.
RECURSIVE FrameFrom(_, _)
FrameFrom(start, n) ==
    IF n = 0
    THEN start
    ELSE SampleBit(FrameFrom(start, n - 1), n - 1,
                   LineLevel(latched, n - 1), SecondRead(n - 1))

\* C10 as stated: after a capture, every bit 0..11 of the frame is given by
\* the line levels read during its cycle alone: it is the level read where
\* the reads of the cycle agree, and in every case it is what the same reads
\* give whatever the slot held before (all bits clear, or all bits set).
C10_BitsFromLineOnly ==
    CaptureDone =>
        /\ \A i \in 0..(NumSampled - 1) \ it.glitched :
              Bit(LastFrame, i) = LineLevel(latched, i)
        /\ Sampled(LastFrame) = Sampled(FrameFrom(0, NumCycles))
        /\ Sampled(LastFrame) = Sampled(FrameFrom(Half - 1, NumCycles))

\* What the code does instead: the frame is what the reads build from the
\* previous content of the slot, and a cycle whose first read is high and
\* whose second read is low keeps the bit the slot held before.
C10_StaleBitKept ==
    CaptureDone =>
        /\ LastFrame = FrameFrom(it.stale, NumCycles)
        /\ \A i \in it.glitched : Bit(LastFrame, i) = Bit(it.stale, i)


(***************************************************************************)
(* C11.  Transmissions armed per read cycle.                               *)
(***************************************************************************)
\* C11 as stated: every read cycle arms one outbound transmission, so when
\* the loop is at its inter-cycle delay the number of queue attempts made
\* equals the number of completed captures.
C11_OnePerCapture ==
    AtDelay => hist.queueCalls = captures

\* C11 as the code has it: the queue attempt is part of the consensus
\* evaluation, so when the loop is at its inter-cycle delay the number of
\* queue attempts made equals the number of evaluations, which is the
\* number of completed captures divided by three.
C11_OnePerGroup ==
    AtDelay => /\ hist.queueCalls = evals
               /\ hist.queueCalls = captures \div NumSlots
               /\ (it.queued \/ it.dropped) = it.evaluated

\* Two groups of three captures have armed two transmissions.
C11_Witness ==
    AtDelay /\ captures = 2 * NumSlots /\ hist.queueCalls = 2 /\ it.evaluated

(***************************************************************************)
(* C12.  Queuing a transmission does not block the read loop.              *)
(***************************************************************************)
\* The step that leaves the queue call: it goes on to the reset of the
\* attempt counter; with room in the queue the transaction is queued, with
\* the slot occupied it is dropped and the queue is left as it was.
C12_Step ==
    (pc = "queue" /\ pc' # pc) =>
        /\ pc' = "reset"
        /\ IF vspiQueued < QueueSize
           THEN vspiQueued' = vspiQueued + 1 /\ it'.queued /\ ~it'.dropped
           ELSE vspiQueued' = vspiQueued /\ it'.dropped /\ ~it'.queued

\* C12: the queue never holds more than one pending transmission, the
\* queue call can always be taken whether the slot is free or occupied, an
\* attempt on an occupied slot is dropped, and in both cases the loop goes
\* on to its inter-cycle delay and to the next loop test.
C12_QueueNeverBlocks ==
    /\ [](vspiQueued <= QueueSize)
    /\ [](pc = "queue" => ENABLED QueueTrans)
    /\ [][C12_Step]_vars
    /\ (pc = "queue") ~> AtDelay
    /\ (AtDelay /\ it.evaluated) ~> (pc = "while")

\* The second attempt was dropped on the slot the first one still occupies,
\* and the loop has gone on to its inter-cycle delay.
C12_Witness ==
    /\ AtDelay
    /\ it.dropped /\ ~it.queued
    /\ vspiQueued = QueueSize
    /\ hist.queueCalls = 2

(***************************************************************************)
(* C13.  The controller ports and the two generators share no hardware.    *)
(***************************************************************************)
\* A step in which the peripheral clocks out a queued transaction.
Transmits == vspiQueued' < vspiQueued

\* C13: a transaction that holds port 0's TX buffer is transmitted only by
\* the peripheral bound to port 0's pins, never by the one bound to port 1's
\* pins, and the latch and clock generators use distinct RMT channels.
C13_PortsSeparate ==
    /\ [][ (Transmits /\ TransBuffer = "u32Port0Tx")
              => (TransHost = Port0Host /\ TransHost # Port1Host) ]_vars
    /\ LatchChannel # ClockChannel

(***************************************************************************)
(* The DEBUG build, and InitSNES called more than once.                    *)
(***************************************************************************)
\* _SNESDebugThread, created by InitSNES in a DEBUG build, begins to run.
DebugStart ==
    /\ sys = "up"
    /\ dbg.pc = "none"
    /\ dbg' = [ dbg EXCEPT !.pc = "loop" ]
    /\ UNCHANGED << sys, driverVars, threadVars, envVars, ret, histVars,
                    sig, wifi >>

\* One pass of the debug loop: CommittedState is copied to the local
\* u16Temp, formatted, logged when it differs from u16Prev, which then takes
\* its value; vTaskDelay.
DebugDump ==
    /\ sys = "up"
    /\ dbg.pc = "loop"
    /\ bIsRunning
    /\ dbg' = [ dbg EXCEPT !.u16Temp = u16InputData,
                             !.u16Prev = u16InputData ]
    /\ UNCHANGED << sys, driverVars, threadVars, envVars, ret, histVars,
                    sig, wifi >>

\* The debug loop sees the flag cleared: vTaskDelete(NULL).
DebugExit ==
    /\ sys = "up"
    /\ dbg.pc = "loop"
    /\ ~bIsRunning
    /\ dbg' = [ dbg EXCEPT !.pc = "done" ]
    /\ UNCHANGED << sys, driverVars, threadVars, envVars, ret, histVars,
                    sig, wifi >>

\* The state after abort(): the driver data as InitSNES left it before the
\* failing call, every thread gone.
Halted(h) ==
    /\ sys' = "aborted"
    /\ bIsRunning' = TRUE
    /\ u16InputData' = InitInputData
    /\ u32Port0Tx' = InitPortTx
    /\ u32Port1Tx' = InitPortTx
    /\ pc' = "none"
    /\ u16Temp' = [ i \in 0..(NumSlots - 1) |-> InitTemp ]
    /\ u8Attempt' = 0
    /\ u8Bit' = 0
    /\ latched' = Waveforms[1]
    /\ vspiQueued' = 0
    /\ captures' = 0
    /\ evals' = 0
    /\ it' = FreshIter
    /\ hist' = [ FreshHist EXCEPT !.claimed = h.claimed ]
    /\ sig' = ZeroSig
    /\ dbg' = FreshDbg

\* InitSNESAgain with spi_slave_initialize accepting a host that is already
\* initialised: a second read thread is created beside the first.
InitSNESAgainUnclaimed ==
    /\ sys = "up"
    /\ bIsRunning' = TRUE
    /\ u16InputData' = InitInputData
    /\ u32Port0Tx' = InitPortTx
    /\ u32Port1Tx' = InitPortTx
    /\ hist' = [ hist EXCEPT !.threads = @ + 1 ]
    /\ UNCHANGED << sys, threadVars, envVars, ret, captures, evals, it,
                    auxVars >>

\* InitSNES called when the driver is already up, before or after
\* DeInitSNES: the driver data is reset, and spi_slave_initialize(HSPI_HOST)
\* is refused because the host was initialised by the first call and has
\* not been freed since; ESP_ERROR_CHECK aborts before xTaskCreate.
InitSNESAgain ==
    /\ sys = "up"
    /\ Port0Host \in hist.claimed
    /\ Halted(hist)
    /\ UNCHANGED << ret, wifi >>

DebugNext ==
    \/ Next
    \/ DebugStart \/ DebugDump \/ DebugExit
    \/ InitSNESAgain

DebugSpec == Init /\ [][DebugNext]_vars

(***************************************************************************)
(* C14.  CommittedState has one writer and any number of readers.          *)
(***************************************************************************)
\* A step that changes CommittedState while the driver stays up is the
\* consensus commit of the read thread, and is no step of a reader.
C14_WriteStep ==
    (sys = "up" /\ sys' = "up" /\ u16InputData' # u16InputData) =>
        /\ pc = "cmp" /\ Consensus(u16Temp)
        /\ u16InputData' = u16Temp[0]
        /\ hist.threads = 1
        /\ ret' = ret /\ dbg' = dbg

\* A step of GetSNESInputData or of the debug thread takes the value of
\* CommittedState and changes nothing of the driver, the read thread, the
\* queue or the waveforms.
C14_ReadStep ==
    (sys' = "up" /\ (ret' # ret \/ dbg' # dbg)) =>
        /\ UNCHANGED << driverVars, threadVars, envVars, sig, histVars >>
        /\ ret' # ret => ret' = u16InputData
        /\ dbg'.u16Temp # dbg.u16Temp => dbg'.u16Temp = u16InputData
        /\ dbg'.u16Prev # dbg.u16Prev => dbg'.u16Prev = u16InputData

\* C14: after initialisation CommittedState is written only by the consensus
\* step of the read thread, GetSNESInputData and the debug thread only read
\* it, and whatever InitSNES and DeInitSNES calls are made there is never
\* more than one read thread alive.
C14_SingleWriter ==
    /\ [](hist.threads <= 1)
    /\ [](hist.threads = IF pc \in { "none", "done" } THEN 0 ELSE 1)
    /\ [][C14_WriteStep]_vars
    /\ [][C14_ReadStep]_vars

\* The read thread has committed a value other than the default, the debug
\* thread has logged it, GetSNESInputData has returned it, and DeInitSNES
\* followed by InitSNES is about to be answered by an abort.
C14_Witness ==
    /\ sys = "up"
    /\ hist.committed
    /\ u16InputData # InitInputData
    /\ dbg.u16Prev = u16InputData
    /\ ret = u16InputData
    /\ ~bIsRunning
    /\ hist.threads = 1
    /\ ENABLED InitSNESAgain

(***************************************************************************)
(* C15.  The waveforms are written once and emitted unchanged.             *)
(***************************************************************************)
\* C15: while the driver is up no step changes the latch and clock items
\* written by InitSNES, every SendLatch hands the same single item and every
\* SendClock the same 17 items to the generator, so that every emission has
\* the same number of items, the same total duration and the same edges.
C15_WaveformsFixed ==
    /\ [][sys = "up" => sig' = sig]_vars
    /\ [](sys = "up" =>
            sig = [ latch |-> LatchItems, clock |-> ClockItems ])
    /\ [](it.latch => it.latchOut = NumLatchItems)
    /\ [](it.clock => it.clockOut = NumClockItems)
    /\ [](pc = "settle" =>
            /\ Emission(sig.latch, it.latchOut, LatchIdle) = LatchEmission
            /\ Emission(sig.clock, it.clockOut, ClockIdle) = ClockEmission)

\* The last capture of the run has emitted latch and clock, six captures
\* after the first.
C15_Witness ==
    /\ pc = "settle"
    /\ captures = MaxCaptures - 1
    /\ it.latch /\ it.clock
    /\ it.latchOut = NumLatchItems
    /\ it.clockOut = NumClockItems

(***************************************************************************)
(* InitSNES with an RMT channel that could not be set up.                  *)
(***************************************************************************)
\* The results of rmt_config and rmt_driver_install are discarded: when they
\* fail for one or both channels InitSNES goes on as if they had succeeded,
\* writes the items and creates the read thread.
InitSNESDegraded ==
    /\ sys = "boot"
    /\ sys' = "up"
    /\ bIsRunning' = TRUE
    /\ u16InputData' = InitInputData
    /\ u32Port0Tx' = InitPortTx
    /\ u32Port1Tx' = InitPortTx
    /\ sig' = [ latch |-> LatchItems, clock |-> ClockItems ]
    /\ pc' = "while"
    /\ u16Temp' = [ i \in 0..(NumSlots - 1) |-> InitTemp ]
    /\ u8Attempt' = 0
    /\ u8Bit' = 0
    /\ \E lost \in (SUBSET { "RMT0", "RMT1" }) \ { {} } :
          hist' = [ hist EXCEPT !.claimed = Resources \ lost,
                                !.threads = @ + 1 ]
    /\ UNCHANGED << dbg, wifi, envVars, ret, captures, evals, it >>

StartNext == Next \/ InitSNESDegraded

StartSpec == Init /\ [][StartNext]_vars

(***************************************************************************)
(* C16.  A resource that cannot be acquired aborts startup.                *)
(***************************************************************************)
\* C16: once InitSNES has been called, if one of the resources it needs (a
\* GPIO configuration, an SPI host, an RMT channel) was not acquired, the
\* startup was aborted: no read thread exists and no latch or clock call
\* has been made.
C16_AbortOnAnyFailure ==
    (sys # "boot" /\ hist.claimed # Resources) =>
        /\ sys = "aborted"
        /\ hist.threads = 0 /\ pc = "none"
        /\ captures = 0 /\ ~it.latch /\ ~it.clock

(***************************************************************************)
(* C17.  Resources after the stop.                                         *)
(***************************************************************************)
\* C17: once the read loop has exited after a stop request and the thread
\* has deleted itself (Stopped), the two RMT channels and the SPI hosts
\* acquired by InitSNES have been released.
C17_ReleasedWhenStopped ==
    (sys = "up" /\ ~bIsRunning /\ pc = "done") => hist.claimed = {}

(***************************************************************************)
(* C18.  The duration of a frame capture.                                  *)
(***************************************************************************)
\* C18 as stated: a capture is the fixed sequence of one settle delay and 16
\* cycles of two half-period delays and takes about 100 microseconds, the
\* requested delays being honoured to one microsecond each.
C18_About100us ==
    CaptureDone =>
        /\ it.delays = 1 + 2 * NumCycles
        /\ it.elapsed >= 100 - it.delays
        /\ it.elapsed <= 100 + it.delays

\* C18 as the code has it: whatever the line does, a capture makes the same
\* 33 delay calls, one of 3 and 32 of 6 microseconds, 195 microseconds in
\* all, and no step of the capture waits for a condition.
C18_FixedDelays ==
    /\ CaptureDone =>
          /\ it.delays = 1 + 2 * NumCycles
          /\ it.elapsed = SettleUs + NumCycles * 2 * HalfDelayUs
          /\ it.elapsed = 195
    /\ pc \in CapturePcs =>
          /\ ENABLED ThreadStep
          /\ it.elapsed <= SettleUs + NumCycles * 2 * HalfDelayUs

\* A capture of a frame with buttons pressed (line low in some cycles) has
\* returned.
C18_Witness ==
    /\ CaptureDone
    /\ LastFrame # InitTemp
    /\ it.elapsed = SettleUs + NumCycles * 2 * HalfDelayUs

(***************************************************************************)
(* WiFi.c: provisioning by smart-config.                                   *)
(***************************************************************************)
\* The two bits of hEventGroup.
ConnectedBit == "eCONNECTED_BIT"
DoneBit      == "eESPTOUCH_DONE_BIT"

\* InitWiFi: the driver is zeroed, the event group created, WiFi started.
InitWiFi ==
    /\ ~wifi.init
    /\ wifi' = [ wifi EXCEPT !.init = TRUE, !.bHasIP = FALSE, !.bits = {} ]
    /\ UNCHANGED << sys, driverVars, threadVars, envVars, ret, histVars,
                    sig, dbg >>

\* _EventHandler, SYSTEM_EVENT_STA_START: _SmartConfigThread is created; it
\* starts smart-config with _SCCallback and waits for the event bits.
EventStaStart ==
    /\ wifi.init
    /\ wifi.sc = "none"
    /\ wifi' = [ wifi EXCEPT !.sc = "wait" ]
    /\ UNCHANGED << sys, driverVars, threadVars, envVars, ret, histVars,
                    sig, dbg >>

\* _EventHandler, SYSTEM_EVENT_STA_GOT_IP.
EventGotIP ==
    /\ wifi.init
    /\ wifi' = [ wifi EXCEPT !.bits = @ \cup { ConnectedBit } ]
    /\ UNCHANGED << sys, driverVars, threadVars, envVars, ret, histVars,
                    sig, dbg >>

\* _EventHandler, SYSTEM_EVENT_STA_DISCONNECTED.
EventDisconnected ==
    /\ wifi.init
    /\ wifi' = [ wifi EXCEPT !.bits = @ \ { ConnectedBit } ]
    /\ UNCHANGED << sys, driverVars, threadVars, envVars, ret, histVars,
                    sig, dbg >>

\* _SCCallback, SC_STATUS_LINK_OVER, while smart-config runs.
SCLinkOver ==
    /\ wifi.sc = "wait"
    /\ wifi' = [ wifi EXCEPT !.bits = @ \cup { DoneBit },
                               !.doneRaised = TRUE ]
    /\ UNCHANGED << sys, driverVars, threadVars, envVars, ret, histVars,
                    sig, dbg >>

\* SmartConfigLoop taking either bit for the end of provisioning.
SmartConfigLoopAnyBit ==
    /\ wifi.sc = "wait"
    /\ wifi.bits # {}
    /\ wifi' = [ wifi EXCEPT !.bits = {}, !.bHasIP = TRUE, !.sc = "done" ]
    /\ UNCHANGED << sys, driverVars, threadVars, envVars, ret, histVars,
                    sig, dbg >>

\* _SmartConfigThread, one pass of its loop: xEventGroupWaitBits returns
\* when either bit is set, with the bits that were set, and clears them;
\* with eESPTOUCH_DONE_BIT among them bHasIP = true, smart-config is stopped
\* and the thread deletes itself; otherwise it waits again.
SmartConfigLoop ==
    /\ wifi.sc = "wait"
    /\ wifi.bits # {}
    /\ wifi' = IF DoneBit \in wifi.bits
               THEN [ wifi EXCEPT !.bits = {}, !.bHasIP = TRUE, !.sc = "done" ]
               ELSE [ wifi EXCEPT !.bits = {} ]
    /\ UNCHANGED << sys, driverVars, threadVars, envVars, ret, histVars,
                    sig, dbg >>

\* WaitForIP is called.
WaitForIPCall ==
    /\ wifi.wait = "idle"
    /\ wifi' = [ wifi EXCEPT !.wait = "poll" ]
    /\ UNCHANGED << sys, driverVars, threadVars, envVars, ret, histVars,
                    sig, dbg >>

\* WaitForIP: while (!bHasIP) ets_delay_us(100000); the loop is left when
\* the flag is read true.
WaitForIPReturn ==
    /\ wifi.wait = "poll"
    /\ wifi.bHasIP
    /\ wifi' = [ wifi EXCEPT !.wait = "returned" ]
    /\ UNCHANGED << sys, driverVars, threadVars, envVars, ret, histVars,
                    sig, dbg >>

WiFiStep ==
    \/ InitWiFi \/ EventStaStart \/ EventGotIP \/ EventDisconnected
    \/ SCLinkOver \/ SmartConfigLoop
    \/ WaitForIPCall \/ WaitForIPReturn

\* The read pipeline beside the WiFi driver.
WiFiNext == InitSNES \/ DeInitSNES \/ ThreadStep \/ WiFiStep

\* The read thread keeps being scheduled; nothing is assumed about the WiFi
\* events, so provisioning may complete at any time or never.
WiFiSpec == Init /\ [][WiFiNext]_vars /\ WF_vars(ThreadStep)

(***************************************************************************)
(* C19.  Provisioning and the read pipeline.                               *)
(***************************************************************************)
\* The step that sets the provisioning-complete flag is the step of the
\* SmartConfig thread in which the wait returns with the smart-config done
\* bit, set before by the callback.
C19_SetStep ==
    (wifi'.bHasIP /\ ~wifi.bHasIP) =>
        /\ wifi.sc = "wait" /\ wifi'.sc = "done"
        /\ DoneBit \in wifi.bits /\ wifi'.bits = {}
        /\ wifi.doneRaised

\* A step of the read thread neither reads nor changes the WiFi driver, and
\* a step of the WiFi driver changes nothing of the read pipeline.
C19_Apart ==
    /\ (pc' # pc \/ u8Bit' # u8Bit) => wifi' = wifi
    /\ wifi' # wifi =>
          UNCHANGED << sys, driverVars, threadVars, envVars, histVars >>

\* C19: WaitForIP has returned only if the provisioning-complete flag is
\* true, the flag is true only if the smart-config done bit was delivered to
\* the SmartConfig thread, and the read thread is never blocked: inside an
\* iteration it always has a step to take, and every capture begun is
\* completed and followed by the inter-cycle delay, whether or not
\* provisioning has completed or ever completes.
C19_ProvisioningApart ==
    /\ [](wifi.wait = "returned" => wifi.bHasIP)
    /\ [](wifi.bHasIP => wifi.doneRaised /\ wifi.sc = "done")
    /\ [][C19_SetStep]_vars
    /\ [][C19_Apart]_vars
    /\ [](pc \in IterPcs => ENABLED ThreadStep)
    /\ (pc = "latch" /\ ~wifi.bHasIP) ~> AtDelay

\* Provisioning completed and WaitForIP returned while the read thread,
\* which had committed a state, was in the middle of a later capture.
C19_Witness ==
    /\ wifi.wait = "returned"
    /\ wifi.bHasIP
    /\ wifi.sc = "done"
    /\ hist.committed
    /\ u16InputData # InitInputData
    /\ pc = "cycle"
    /\ captures > NumSlots

(***************************************************************************)
(* C20.  The shape of the two waveforms.                                   *)
(***************************************************************************)
\* The latch as emitted: one item, one high pulse of 12 ticks on a line
\* that idles low.
LatchShape(items) ==
    /\ DOMAIN items = 0..0
    /\ LatchIdle = 0
    /\ Halves(items) = << << 12, 1 >> >>
    /\ RisingEdges(items, LatchIdle) = 1
    /\ FallingEdges(items, LatchIdle) = 1

\* The clock train as emitted: 17 items on a line that idles high; the
\* leading item is high in both halves and shorter than a regular cycle;
\* the 16 items after it are 6 ticks low then 6 ticks high; the line falls
\* 16 times, once at the start of each regular cycle.
ClockShape(items) ==
    /\ DOMAIN items = 0..16
    /\ ClockIdle = 1
    /\ Level0(items[0]) = 1 /\ Level1(items[0]) = 1
    /\ Duration0(items[0]) > 0 /\ Duration1(items[0]) > 0
    /\ Duration0(items[0]) + Duration1(items[0]) < 6 + 6
    /\ \A i \in 1..16 : items[i] = Item(6, 0, 6, 1)
    /\ FallingEdges(items, ClockIdle) = 16
    /\ RisingEdges(items, ClockIdle) = 16
    /\ FallingEdges(items, ClockIdle) = NumCycles
    /\ TotalTicks(Halves(items)) =
          Duration0(items[0]) + Duration1(items[0])
              + NumCycles * 2 * HalfDelayUs

\* C20: the latch handed to the generator is a single active-high pulse of
\* 12 units on a line idling low, and the clock train is 17 items on a line
\* idling high: a leading item without a low phase, shorter than a regular
\* cycle, then exactly 16 cycles of 6 low and 6 high, hence exactly 16
\* falling edges, one for each cycle of the capture loop.
C20_WaveformShape ==
    pc = "settle" =>
        /\ LatchShape(FirstItems(sig.latch, it.latchOut))
        /\ ClockShape(FirstItems(sig.clock, it.clockOut))

\* The first capture has emitted its latch and its clock train.
C20_Witness ==
    /\ pc = "settle"
    /\ captures = 0
    /\ it.latch /\ it.clock
    /\ Emission(sig.clock, it.clockOut, ClockIdle).falls = NumCycles
    /\ Emission(sig.latch, it.latchOut, LatchIdle).ticks = LatchTicks

(***************************************************************************)
(* Sampling against the clock train, in nominal time: the latch and the   *)
(* clock start together at 0, one RMT tick (80 MHz / clk_div 80) is one    *)
(* microsecond, and every ets_delay_us lasts what it asks for.             *)
(***************************************************************************)
\* The ticks at which the clock train written by _InitSNESSigGen and sent by
\* SendClock makes the line fall.
ClockFalls == FallTimes(ClockItems, NumClockItems, ClockIdle)

Magnitude(x) == IF x < 0 THEN 0 - x ELSE x

\* C21: in nominal time every sample of a capture is taken while the clock
\* train of _InitSNESSigGen is being sent, and has the same offset from the
\* falling clock edge of its cycle as the first sample has from the first
\* edge; that offset is less than half a clock cycle (6 units): no drift
\* accumulates over the 16 cycles.
C21_LockStep ==
    it.cycles > 0 =>
        LET first  == it.firstAt - ClockFalls[1]
            latest == it.sampleAt - ClockFalls[it.cycles]
        IN  /\ sig.clock = ClockItems
            /\ it.clockOut = NumClockItems
            /\ latest = first
            /\ Magnitude(latest) < HalfTicks

\* The 16th cycle of a capture has sampled, 2 units before the 16th falling
\* edge, as the first cycle did before the first.
C21_Witness ==
    /\ pc = "cycle"
    /\ it.cycles = NumCycles
    /\ it.firstAt = SettleUs + HalfDelayUs
    /\ it.sampleAt = it.firstAt + (NumCycles - 1) * 2 * HalfDelayUs
    /\ sig.clock = ClockItems /\ it.clockOut = NumClockItems
    /\ it.firstAt - ClockFalls[1] = 0 - 2
    /\ it.sampleAt - ClockFalls[NumCycles] = 0 - 2

(***************************************************************************)
(* The TX buffer as the peripheral finds it.                               *)
(***************************************************************************)
\* C22: whenever the peripheral can clock a queued transaction out, the TX
\* buffer the transaction points to holds the complete encoding of the
\* current CommittedState (shifted left by one, bit 0 low): never the
\* initial all-ones value, never a loaded but unshifted value.
C22_BufferEncodedWhenReadable ==
    ENABLED SpiTransfer => u32Port0Tx = Encode(u16InputData)

(***************************************************************************)
(* The accumulation index.                                                 *)
(***************************************************************************)
\* Positions at which the read thread indexes u16Temp with u8Attempt: the
\* passes of the for loop (and the slot's content on entering them).
IndexPcs == { "settle", "cycle" }

\* Positions between u8Attempt++ and u8Attempt = 0.
EvalPcs == { "check", "cmp", "tx1", "tx2", "tx3", "queue", "reset" }

\* A step that changes the index: u8Attempt++ at the end of a capture, or
\* u8Attempt = 0 at the end of the evaluation of a group.
C23_Step ==
    u8Attempt' # u8Attempt =>
        \/ pc = "cycle" /\ pc' = "check" /\ u8Attempt' = u8Attempt + 1
        \/ pc = "reset" /\ pc' = "delay" /\ u8Attempt = NumSlots
                        /\ u8Attempt' = 0

\* C23: the accumulation index is within 0..2 whenever it indexes the three
\* frame slots; it grows by one per capture, and the value 3 exists only
\* between the increment and the reset of one and the same loop iteration.
C23_IndexInBounds ==
    /\ [](pc \in IndexPcs => u8Attempt \in 0..(NumSlots - 1))
    /\ [](u8Attempt \in 0..NumSlots)
    /\ [](u8Attempt = NumSlots => pc \in EvalPcs)
    /\ [][C23_Step]_vars

\* The index reached 3, was reset, and indexes slot 0 in the fourth capture.
C23_Witness ==
    /\ pc = "cycle"
    /\ captures = NumSlots
    /\ evals = 1
    /\ u8Attempt = 0
    /\ it.cycles = NumSampled

====
